---- MODULE Spec2Model ----
(***************************************************************************)
(* Model of backend/main.py: a FastAPI application with one route,         *)
(* POST /, whose handler seek_cosmic_wisdom builds a strands Agent on the  *)
(* module-level GeminiModel, calls it with the question and returns an     *)
(* Insight built from the first content block of the reply.                *)
(*                                                                         *)
(* Requests are numbered in order of arrival.  The handler is a plain      *)
(* `def`, so every request runs on a worker thread of its own and blocks   *)
(* there during the model call; the steps of a request are its arrival     *)
(* (with FastAPI's validation of the body against Inquery), the start of   *)
(* the handler up to the blocking call, and the end of the call with the   *)
(* rest of the handler.                                                    *)
(***************************************************************************)
EXTENDS Naturals, Sequences, FiniteSets

\* ---------------------------------------------------------------- bounds
NumRequests == 2          \* requests the clients send
MaxLen == 1               \* longest question string
MaxSegs == 2              \* most content blocks in one reply

Reqs == 1..NumRequests

\* Characters of a question: one whitespace character, one other.
Chars == {" ", "a"}
Strings == UNION {[1..k -> Chars] : k \in 0..MaxLen}

\* The "question" member of the JSON body: absent, of another JSON type, or
\* a string.
RawBodies ==
    {[type |-> "absent", val |-> <<>>], [type |-> "number", val |-> <<>>]}
    \cup {[type |-> "string", val |-> s] : s \in Strings}

\* Content blocks of a reply message: a text block with its payload, or a
\* block of another kind, which has no "text" key.
Payloads == {"", "The wind honors only the prepared."}
Segments ==
    {[kind |-> "text", text |-> p] : p \in Payloads}
    \cup {[kind |-> "reasoningContent", text |-> ""]}
Replies == UNION {[1..k -> Segments] : k \in 0..MaxSegs}

\* Ways the call agent(r.question) can raise.
ModelFailures == {"TransportError", "AuthError", "MalformedReply"}

IsBlank(s) == \A i \in 1..Len(s) : s[i] = " "

VARIABLES
    environ,     \* value of GEMINI_API_KEY for os.getenv: <<>> or <<key>>
    phase,       \* "boot" while the module is imported, then "serving"
    model,       \* the module-level GeminiModel: <<>> or <<[api_key |-> ..]>>
    request,     \* request[r]: <<>> or <<raw body>> once r has arrived
    st,          \* st[r]: "idle", "validated", "calling", "hung", "done"
    inquery,     \* inquery[r]: <<>> or <<Inquery>>, the handler's argument r
    messages,    \* messages[a]: the conversation held by Agent a
    prompt,      \* prompt[r]: the messages sent by the model call of r
    calls,       \* calls[r]: outbound model calls made for request r
    resp,        \* resp[r]: <<>> or <<what the call returned>>, kept as the
                 \* reply's first block and its earliest text payload
    raised,      \* raised[r]: <<>> or <<exception>> that escaped the handler
    response     \* response[r]: <<>> or <<HTTP response>>

vars == <<environ, phase, model, request, st, inquery, messages, prompt,
          calls, resp, raised, response>>

Agents == 0..NumRequests

\* ------------------------------------------------------- pure operators

\* A model that strips whitespace from its strings (str_strip_whitespace),
\* which Inquery is not.
ValidateStrip(raw) ==
    IF raw.type = "string"
    THEN <<[question |-> SelectSeq(raw.val, LAMBDA c : c # " ")]>>
    ELSE <<>>

\* FastAPI validates the JSON body against Inquery (question: str, required,
\* no other constraint): a string of any content is accepted and kept as it
\* is, anything else is a validation error.
Validate(raw) ==
    IF raw.type = "string" THEN <<[question |-> raw.val]>> ELSE <<>>

\* A lookup with defaults, content[0].get('text', '') guarded by a length
\* test, which the handler does not use.
ExtractWisdomLenient(reply) ==
    IF Len(reply) = 0 \/ reply[1].kind # "text"
    THEN [exc |-> <<>>, text |-> ""]
    ELSE [exc |-> <<>>, text |-> reply[1].text]

\* resp.message['content'][0]['text']: the list index raises IndexError on an
\* empty list, the key lookup raises KeyError on a block without "text".
ExtractWisdom(reply) ==
    IF Len(reply) = 0 THEN [exc |-> <<"IndexError">>, text |-> ""]
    ELSE IF reply[1].kind # "text" THEN [exc |-> <<"KeyError">>, text |-> ""]
    ELSE [exc |-> <<>>, text |-> reply[1].text]

\* Insight(question=r.question, wisdom=...): two str fields, no constraint.
Insight(question, wisdom) == [question |-> question, wisdom |-> wisdom]

OkResponse(insight) ==
    [status |-> 200, insight |-> <<insight>>, detail |-> ""]

\* FastAPI's answer to a body that fails validation names the field.
ValidationErrorResponse ==
    [status |-> 422, insight |-> <<>>, detail |-> "question"]

\* The answer of an application created with debug on, which shows the
\* exception.
DebugErrorResponse(exc) ==
    [status |-> 500, insight |-> <<>>, detail |-> exc]

\* app = FastAPI() has debug off: an exception that escapes the handler is
\* answered with the fixed text, whatever the exception.
ServerErrorResponse(exc) ==
    [status |-> 500, insight |-> <<>>, detail |-> "Internal Server Error"]

\* Agent 0 stands for one agent made at module level and used by every
\* request.
SharedAgent(r) == 0

\* The handler constructs its Agent itself: request r talks to agent r and to
\* no other.
AgentOf(r) == r

Turn(role, r) == [role |-> role, req |-> r]

\* What is recorded of a reply: its block at index 0, if any, and the payload
\* of its earliest text block, if any.
TextAt(reply) == {i \in 1..Len(reply) : reply[i].kind = "text"}
FirstText(reply) == CHOOSE i \in TextAt(reply) : \A j \in TextAt(reply) : i <= j
Record(reply) ==
    [head |-> IF Len(reply) = 0 THEN <<>> ELSE <<reply[1]>>,
     firstText |-> IF TextAt(reply) = {} THEN <<>>
                   ELSE <<reply[FirstText(reply)].text>>]

\* ------------------------------------------------------------- actions

Init ==
    /\ environ \in {<<>>, <<"key">>}
    /\ phase = "boot"
    /\ model = <<>>
    /\ request = [r \in Reqs |-> <<>>]
    /\ st = [r \in Reqs |-> "idle"]
    /\ inquery = [r \in Reqs |-> <<>>]
    /\ messages = [a \in Agents |-> <<>>]
    /\ prompt = [r \in Reqs |-> <<>>]
    /\ calls = [r \in Reqs |-> 0]
    /\ resp = [r \in Reqs |-> <<>>]
    /\ raised = [r \in Reqs |-> <<>>]
    /\ response = [r \in Reqs |-> <<>>]

\* Import of the module: load_dotenv(), the GeminiModel built with whatever
\* os.getenv returns (None when the variable is not set), app = FastAPI().
Startup ==
    /\ phase = "boot"
    /\ model' = <<[api_key |-> environ]>>
    /\ phase' = "serving"
    /\ UNCHANGED <<environ, request, st, inquery, messages, prompt, calls,
                   resp, raised, response>>

\* POST / arrives with a body; FastAPI validates it before the handler runs.
Receive(r, raw) ==
    /\ phase = "serving"
    /\ st[r] = "idle"
    /\ \A p \in Reqs : p < r => st[p] # "idle"
    /\ request' = [request EXCEPT ![r] = <<raw>>]
    /\ LET v == Validate(raw) IN
        IF v = <<>>
        THEN /\ st' = [st EXCEPT ![r] = "done"]
             /\ response' = [response EXCEPT ![r] = <<ValidationErrorResponse>>]
             /\ UNCHANGED inquery
        ELSE /\ st' = [st EXCEPT ![r] = "validated"]
             /\ inquery' = [inquery EXCEPT ![r] = v]
             /\ UNCHANGED response
    /\ UNCHANGED <<environ, phase, model, messages, prompt, calls, resp,
                   raised>>

\* A server that runs one handler at a time: a handler starts only when no
\* other is inside its model call.
DispatchSerial(r) ==
    /\ st[r] = "validated"
    /\ \A p \in Reqs : st[p] \notin {"calling", "hung"}
    /\ LET a == AgentOf(r) IN
        /\ messages' = [messages EXCEPT ![a] = Append(@, Turn("user", r))]
        /\ prompt' = [prompt EXCEPT ![r] = messages'[a]]
    /\ calls' = [calls EXCEPT ![r] = @ + 1]
    /\ st' = [st EXCEPT ![r] = "calling"]
    /\ UNCHANGED <<environ, phase, model, request, inquery, resp, raised,
                   response>>

\* The handler starts on its worker thread: it constructs the Agent and
\* calls it; the agent appends the question as a user turn and sends its
\* conversation to the model.  The thread then blocks in the call.
Dispatch(r) ==
    /\ st[r] = "validated"
    /\ LET a == AgentOf(r) IN
        /\ messages' = [messages EXCEPT ![a] = Append(@, Turn("user", r))]
        /\ prompt' = [prompt EXCEPT ![r] = messages'[a]]
    /\ calls' = [calls EXCEPT ![r] = @ + 1]
    /\ st' = [st EXCEPT ![r] = "calling"]
    /\ UNCHANGED <<environ, phase, model, request, inquery, resp, raised,
                   response>>

\* The call returns a reply; the agent records the assistant turn, and the
\* handler builds the Insight from the reply and returns it, or raises.
ModelReplies(r, reply) ==
    /\ st[r] = "calling"
    /\ model[1].api_key # <<>>
    /\ messages' = [messages EXCEPT
                      ![AgentOf(r)] = Append(@, Turn("assistant", r))]
    /\ resp' = [resp EXCEPT ![r] = <<Record(reply)>>]
    /\ LET w == ExtractWisdom(reply) IN
        IF w.exc = <<>>
        THEN /\ response' = [response EXCEPT ![r] =
                    <<OkResponse(Insight(inquery[r][1].question, w.text))>>]
             /\ UNCHANGED raised
        ELSE /\ raised' = [raised EXCEPT ![r] = w.exc]
             /\ response' = [response EXCEPT ![r] =
                    <<ServerErrorResponse(w.exc[1])>>]
    /\ st' = [st EXCEPT ![r] = "done"]
    /\ UNCHANGED <<environ, phase, model, request, inquery, prompt, calls>>

\* A handler that calls the agent once more after a first failure.
ModelFailsRetry(r, exc) ==
    /\ st[r] = "calling"
    /\ model[1].api_key = <<>> => exc = "AuthError"
    /\ IF calls[r] < 2
       THEN /\ calls' = [calls EXCEPT ![r] = @ + 1]
            /\ UNCHANGED <<raised, response, st>>
       ELSE /\ raised' = [raised EXCEPT ![r] = <<exc>>]
            /\ response' = [response EXCEPT ![r] = <<ServerErrorResponse(exc)>>]
            /\ st' = [st EXCEPT ![r] = "done"]
            /\ UNCHANGED calls
    /\ UNCHANGED <<environ, phase, model, request, inquery, messages, prompt,
                   resp>>

\* The call raises: the handler has no try, the exception escapes it.  With
\* no API key the only outcome is the authentication failure.
ModelFails(r, exc) ==
    /\ st[r] = "calling"
    /\ model[1].api_key = <<>> => exc = "AuthError"
    /\ raised' = [raised EXCEPT ![r] = <<exc>>]
    /\ response' = [response EXCEPT ![r] = <<ServerErrorResponse(exc)>>]
    /\ st' = [st EXCEPT ![r] = "done"]
    /\ UNCHANGED <<environ, phase, model, request, inquery, messages, prompt,
                   calls, resp>>

\* The call never returns: the code sets no timeout, the thread stays blocked.
ModelHangs(r) ==
    /\ st[r] = "calling"
    /\ model[1].api_key # <<>>
    /\ st' = [st EXCEPT ![r] = "hung"]
    /\ UNCHANGED <<environ, phase, model, request, inquery, messages, prompt,
                   calls, resp, raised, response>>

Next ==
    \/ Startup
    \/ \E r \in Reqs, raw \in RawBodies : Receive(r, raw)
    \/ \E r \in Reqs : Dispatch(r)
    \/ \E r \in Reqs, reply \in Replies : ModelReplies(r, reply)
    \/ \E r \in Reqs, exc \in ModelFailures : ModelFails(r, exc)
    \/ \E r \in Reqs : ModelHangs(r)

Spec == Init /\ [][Next]_vars

\* Scheduling does not depend on what bodies and replies contain: for the
\* progress of requests the inputs are the bodies with a question of at most
\* one character and the replies of at most one block, which cover every
\* outcome of validation and of the handler.
LiveBodies == {raw \in RawBodies : Len(raw.val) <= 1}
LiveReplies == {reply \in Replies : Len(reply) <= 1}

LiveReturns(r) ==
    \/ \E reply \in LiveReplies : ModelReplies(r, reply)
    \/ \E exc \in ModelFailures : ModelFails(r, exc)

LiveNext ==
    \/ Startup
    \/ \E r \in Reqs, raw \in LiveBodies : Receive(r, raw)
    \/ \E r \in Reqs : Dispatch(r)
    \/ \E r \in Reqs : LiveReturns(r)
    \/ \E r \in Reqs : ModelHangs(r)

\* Worker threads are scheduled fairly, and a call that does not hang ends.
FairSpec ==
    /\ Init /\ [][LiveNext]_vars
    /\ \A r \in Reqs : WF_vars(Dispatch(r))
    /\ \A r \in Reqs : WF_vars(LiveReturns(r) \/ ModelHangs(r))

\* ------------------------------------------------------------- helpers

Arrived(r) == request[r] # <<>>
Answered(r) == response[r] # <<>>
Status(r) == response[r][1].status
Is200(r) == Answered(r) /\ Status(r) = 200
Is500(r) == Answered(r) /\ Status(r) = 500

\* -------------------------------------------------------------- claims

\* C1: every request whose question is missing, is not a string or is blank
\* (empty or only whitespace) is rejected with a validation error, and no
\* model call is made for it.
C1_BlankOrMissingRejected ==
    \A r \in Reqs :
        (Arrived(r) /\ (request[r][1].type # "string"
                        \/ IsBlank(request[r][1].val)))
        => /\ response[r] = <<ValidationErrorResponse>>
           /\ calls[r] = 0

\* C2: session isolation. The session a request uses holds turns of that
\* request only, the model call of a request sends that request's question
\* as the sole turn, and a returned Insight carries the request's own
\* question.
C2_SessionIsolation ==
    \A r \in Reqs :
        /\ calls[r] > 0 =>
               /\ \A i \in 1..Len(messages[AgentOf(r)]) :
                      messages[AgentOf(r)][i].req = r
               /\ prompt[r] = <<Turn("user", r)>>
        /\ Is200(r) =>
               response[r][1].insight[1].question = request[r][1].val

C2_Witness ==
    /\ st[1] = "calling"
    /\ Is200(2)
    /\ request[1][1].val # request[2][1].val
    /\ Len(messages[AgentOf(2)]) = 2

\* C3: a request that passed validation makes exactly one model call once its
\* handler has started, whether the call succeeds, fails or hangs; no
\* request is answered without a call, and none makes a second one.
C3_ExactlyOneCall ==
    \A r \in Reqs :
        /\ st[r] \in {"idle", "validated"} => calls[r] = 0
        /\ (inquery[r] # <<>> /\ st[r] \in {"calling", "hung", "done"})
               => calls[r] = 1
        /\ inquery[r] = <<>> => calls[r] = 0

C3_Witness ==
    \E r \in Reqs :
        /\ st[r] = "done"
        /\ raised[r] # <<>> /\ raised[r][1] \in ModelFailures
        /\ calls[r] = 1

\* C4: when the reply's first content block is a text block with payload t,
\* the request with accepted question q is answered 200 with
\* Insight{question: q, wisdom: t}, q exactly as it was sent.
C4_InsightVerbatim ==
    \A r \in Reqs :
        (resp[r] # <<>> /\ resp[r][1].head # <<>>
                        /\ resp[r][1].head[1].kind = "text")
        => response[r] = <<OkResponse(Insight(request[r][1].val,
                                              resp[r][1].head[1].text))>>

C4_Witness ==
    \E r \in Reqs :
        /\ Is200(r)
        /\ request[r][1].val = <<" ">>
        /\ response[r][1].insight[1] =
              Insight(<<" ">>, "The wind honors only the prepared.")

\* C5: a reply with zero content blocks ends the request in a server error,
\* and no Insight is returned for it.
C5_EmptyReplyFails ==
    \A r \in Reqs :
        (resp[r] # <<>> /\ resp[r][1].head = <<>>)
        => /\ Is500(r)
           /\ response[r][1].insight = <<>>
           /\ raised[r] # <<>>

C5_Witness ==
    \E r \in Reqs :
        /\ resp[r] # <<>> /\ resp[r][1].head = <<>>
        /\ raised[r] = <<"IndexError">>
        /\ Is500(r)
        /\ response[r][1].insight = <<>>

\* C6: in every 200 response the wisdom field is non-empty.
C6_WisdomNonEmpty ==
    \A r \in Reqs : Is200(r) => response[r][1].insight[1].wisdom # ""

\* C7: when the model call fails, the request ends in a server error with no
\* Insight, and the response carries nothing of the exception.
C7_FailureIsGeneric500 ==
    \A r \in Reqs :
        (raised[r] # <<>> /\ raised[r][1] \in ModelFailures)
        => /\ Is500(r)
           /\ response[r][1].insight = <<>>
           /\ response[r][1].detail = "Internal Server Error"
           /\ response[r][1].detail # raised[r][1]

C7_Witness ==
    \E r \in Reqs :
        /\ raised[r] = <<"TransportError">>
        /\ Is500(r)

\* C8: with the API credential absent from the environment the service
\* never reaches the state in which it accepts requests.
C8_NoCredentialNoService ==
    environ = <<>> => phase # "serving"

\* C9: the wisdom is the payload of the earliest text block of the reply,
\* also when the block at index 0 is not a text block; the request fails
\* only when the reply has no text block.
C9_FirstTextBearingSegment ==
    \A r \in Reqs :
        resp[r] # <<>>
        => IF resp[r][1].firstText = <<>>
           THEN Is500(r)
           ELSE response[r] = <<OkResponse(Insight(request[r][1].val,
                                                   resp[r][1].firstText[1]))>>

====
